---- MODULE Spec2Model ----
(***************************************************************************)
(* Model of src/pokedec/train.py: train_model, one sequential run of the   *)
(* training script.  Every step either has its effect or raises; nothing   *)
(* in train_model catches an exception.                                    *)
(*                                                                         *)
(* Numbers: a loss value is one of LossValues, a batch is its size, the    *)
(* number of correct predictions of a batch is any value 0..size, and a    *)
(* quotient a / b is kept as the pair <<a, b>>.                            *)
(***************************************************************************)
EXTENDS Integers, Sequences, FiniteSets, TLC

\* Bounds of the explored inputs.
MaxEpochs == 2
MaxData == 3

\* The batch sizes tried, and the values loss.item() takes in the model.
BatchSizeInputs == {2, 3}
LossValues == {1}

EpochInputs == {0 - 1} \cup (0 .. MaxEpochs)
DataInputs == 0 .. MaxData

VARIABLES
    use_wandb, sweep, profiling, export_model,  \* mode flags
    num_epochs, batch_size,                     \* hyperparameters that shape control flow
    n_train, n_val, drop_last,                  \* the data on disk and the loader's policy
    pc, fault_at,                               \* position in train_model; where it raised
    epoch, bi,                                  \* loop indices
    train_loader, val_loader,                   \* batch sizes each loader yields per epoch
    m,                                          \* model/optimizer/statistics state
    twin,                                       \* the same run with the other profiling branch
    epoch_loss, epoch_acc, val_acc,             \* per-epoch metrics
    events,                                     \* what happened in the current epoch, in order
    records,                                    \* epochs whose four metrics were reported
    wandb_logs, sched_steps,
    ckpt_writes, artifacts, onnx_writes,
    wandb_inits, wandb_finishes

flags == <<use_wandb, sweep, profiling, export_model>>
env == <<n_train, n_val, drop_last>>
loaders == <<train_loader, val_loader>>
metrics == <<epoch_loss, epoch_acc, val_acc>>
outputs == <<ckpt_writes, artifacts, onnx_writes>>
tracking == <<wandb_inits, wandb_finishes>>
vars == <<flags, num_epochs, batch_size, env, pc, fault_at, epoch, bi, loaders, m, twin,
          metrics, events, records, wandb_logs, sched_steps, outputs, tracking>>

NoValue == <<0, 0>>

RECURSIVE Repeat(_, _)
Repeat(x, n) == IF n <= 0 THEN <<>> ELSE <<x>> \o Repeat(x, n - 1)

\* The batch sizes a DataLoader over n samples yields in one epoch.
LoaderBatches(n, bs, drop) ==
    Repeat(bs, n \div bs)
        \o (IF n % bs # 0 /\ ~drop THEN <<n % bs>> ELSE <<>>)

\* predicted.eq(labels).sum().item() for a batch of b samples.
Matches(b) == 0 .. b

\* ResetTrainStats with `correct = 0` left out.
ResetTrainStatsKeepsCorrect(s) == [s EXCEPT !.running_loss = 0, !.total = 0, !.ops = <<>>]

\* State after the statistics are (re)initialised.
ResetTrainStats(s) == [s EXCEPT !.running_loss = 0, !.correct = 0, !.total = 0, !.ops = <<>>]

ResetValStats(s) ==
    [s EXCEPT !.val_loss = <<0, 1>>, !.val_correct = 0, !.val_total = 0, !.ops = <<>>]

InitMachine ==
    [running_loss |-> 0, correct |-> 0, total |-> 0,
     val_loss |-> <<0, 1>>, val_correct |-> 0, val_total |-> 0,
     opt_steps |-> 0, zero_grads |-> 0, backwards |-> 0, prof_steps |-> 0,
     ops |-> <<>>]

\* PlainOps with the optimizer stepped before the backward pass.
PlainOpsStepBeforeBackward ==
    <<"zero_grad", "forward", "loss", "opt_step", "backward", "stats">>

\* ProfOps with optimizer.step() left out of the profiled branch.
ProfOpsWithoutOptStep == <<"zero_grad", "forward", "loss", "backward", "prof_step", "stats">>

\* ValOps with the update of the training branch copied in.
ValOpsWithUpdate == <<"forward", "loss", "backward", "opt_step", "val_stats">>

\* The statements of one training batch, in source order.
PlainOps == <<"zero_grad", "forward", "loss", "backward", "opt_step", "stats">>

ProfOps == <<"zero_grad", "forward", "loss", "backward", "opt_step", "prof_step", "stats">>

\* The statements of one validation batch, in source order.
ValOps == <<"forward", "loss", "val_stats">>

TrainOps(prof) == IF prof THEN ProfOps ELSE PlainOps

\* One statement of a batch body, on a batch of b samples with k correct
\* predictions and loss l.
ApplyOp(op, s, b, k, l) ==
    LET t == [s EXCEPT !.ops = Append(@, op)] IN
    CASE op = "zero_grad" -> [t EXCEPT !.zero_grads = @ + 1]
      [] op = "forward" -> t
      [] op = "loss" -> t
      [] op = "backward" -> [t EXCEPT !.backwards = @ + 1]
      [] op = "opt_step" -> [t EXCEPT !.opt_steps = @ + 1]
      [] op = "prof_step" -> [t EXCEPT !.prof_steps = @ + 1]
      [] op = "stats" ->
            [t EXCEPT !.running_loss = @ + l * b, !.total = @ + b, !.correct = @ + k]
      [] op = "val_stats" ->
            [t EXCEPT !.val_loss = <<@[1] + l * b, @[2]>>,
                      !.val_total = @ + b, !.val_correct = @ + k]

\* The first n statements of a batch body.
RECURSIVE RunOps(_, _, _, _, _, _)
RunOps(ops, n, s, b, k, l) ==
    IF n = 0 THEN s
    ELSE ApplyOp(ops[n], RunOps(ops, n - 1, s, b, k, l), b, k, l)

RunBatch(ops, n, s, b, k, l) == RunOps(ops, n, [s EXCEPT !.ops = <<>>], b, k, l)

Init ==
    /\ use_wandb \in BOOLEAN /\ sweep \in BOOLEAN
    /\ profiling \in BOOLEAN /\ export_model \in BOOLEAN
    /\ num_epochs \in EpochInputs
    /\ batch_size \in BatchSizeInputs
    /\ n_train \in DataInputs /\ n_val \in DataInputs
    /\ drop_last \in BOOLEAN
    /\ pc = "init" /\ fault_at = "none"
    /\ epoch = 0 /\ bi = 0
    /\ train_loader = <<>> /\ val_loader = <<>>
    /\ m = InitMachine /\ twin = InitMachine
    /\ epoch_loss = NoValue /\ epoch_acc = NoValue /\ val_acc = NoValue
    /\ events = <<>> /\ records = <<>>
    /\ wandb_logs = 0 /\ sched_steps = 0
    /\ ckpt_writes = 0 /\ artifacts = 0 /\ onnx_writes = 0
    /\ wandb_inits = 0 /\ wandb_finishes = 0

\* Raise under an `except` that logs the error and goes on to the save.
RaiseSwallowed(at) ==
    /\ pc' = "save" /\ fault_at' = at
    /\ UNCHANGED <<m, twin, epoch_loss, epoch_acc, val_acc>>

\* An exception raised by the step at position `at`: nothing catches it, so
\* it unwinds train_model and ends the process.  The model, the optimizer,
\* the statistics and the metrics die with it; what the run wrote, logged and
\* sent stays.
Raise(at) ==
    /\ pc' = "fault" /\ fault_at' = at
    /\ m' = InitMachine /\ twin' = InitMachine
    /\ epoch_loss' = NoValue /\ epoch_acc' = NoValue /\ val_acc' = NoValue

\* What run.config holds for a value passed to wandb.init: the value itself,
\* or the one the sweep controller chose.
ConfigValue(given, domain) == IF sweep THEN domain ELSE {given}

\* The steps of train_model at which control can be.
Steps ==
    {"init", "load", "loop", "train", "val", "wandb_log", "sched",
     "save", "artifact", "export", "onnx_artifact", "finish"}

EpochSteps == {"loop", "train", "train_metrics", "val", "val_metrics", "wandb_log", "sched"}

\* wandb.init, setup_logging and the read-back of the run's config.
WandbInit ==
    /\ pc = "init"
    /\ IF use_wandb
         THEN /\ wandb_inits' = wandb_inits + 1
              /\ num_epochs' \in ConfigValue(num_epochs, EpochInputs)
              /\ batch_size' \in ConfigValue(batch_size, BatchSizeInputs)
         ELSE UNCHANGED <<wandb_inits, num_epochs, batch_size>>
    /\ pc' = "load"
    /\ UNCHANGED <<flags, env, fault_at, epoch, bi, loaders, m, twin, metrics, events,
                   records, wandb_logs, sched_steps, outputs, wandb_finishes>>

\* get_model, PokeData and its two loaders, criterion, optimizer, scheduler.
Load ==
    /\ pc = "load"
    /\ train_loader' = LoaderBatches(n_train, batch_size, drop_last)
    /\ val_loader' = LoaderBatches(n_val, batch_size, drop_last)
    /\ pc' = "loop"
    /\ UNCHANGED <<flags, num_epochs, batch_size, env, fault_at, epoch, bi, m, twin,
                   metrics, events, records, wandb_logs, sched_steps, outputs, tracking>>

\* LoopContinues with an inclusive upper end.
LoopContinuesInclusive == epoch <= num_epochs

\* for epoch in range(num_epochs): the loop is left when the range is exhausted.
LoopContinues == epoch < num_epochs

\* Entering an epoch: model.train() and the reset of the running statistics.
\* The metrics of the epoch before are dead from here on (each is assigned
\* again before it is next read), so they are forgotten.
EpochBegin ==
    /\ pc = "loop" /\ LoopContinues
    /\ m' = ResetTrainStats(m)
    /\ twin' = ResetTrainStats(twin)
    /\ bi' = 0
    /\ events' = <<>>
    /\ pc' = "train"
    /\ epoch_loss' = NoValue /\ epoch_acc' = NoValue /\ val_acc' = NoValue
    /\ UNCHANGED <<flags, num_epochs, batch_size, env, fault_at, epoch, loaders,
                   records, wandb_logs, sched_steps, outputs, tracking>>

\* Leaving the loop: "Finished Training".
LoopExit ==
    /\ pc = "loop" /\ ~LoopContinues
    /\ pc' = "save"
    /\ UNCHANGED <<flags, num_epochs, batch_size, env, fault_at, epoch, bi, loaders, m, twin,
                   metrics, events, records, wandb_logs, sched_steps, outputs, tracking>>

\* One training batch, in the branch the profiling flag selects.
TrainBatch ==
    /\ pc = "train" /\ bi < Len(train_loader)
    /\ LET b == train_loader[bi + 1] IN
        \E k \in Matches(b), l \in LossValues :
            /\ m' = RunBatch(TrainOps(profiling), Len(TrainOps(profiling)), m, b, k, l)
            /\ twin' = RunBatch(TrainOps(~profiling), Len(TrainOps(~profiling)), twin, b, k, l)
    /\ bi' = bi + 1
    /\ events' = Append(events, "T")
    /\ UNCHANGED <<flags, num_epochs, batch_size, env, pc, fault_at, epoch, loaders, metrics,
                   records, wandb_logs, sched_steps, outputs, tracking>>

\* After the last training batch: epoch_loss and epoch_acc are computed and
\* logged, then model.eval() and the reset of the validation statistics.
\* Each division raises ZeroDivisionError on a zero denominator.
TrainMetrics ==
    /\ pc = "train" /\ bi = Len(train_loader)
    /\ IF n_train = 0 \/ m.total = 0
         THEN /\ Raise("train_metrics")
              /\ UNCHANGED <<bi, events>>
         ELSE /\ epoch_loss' = <<m.running_loss, n_train>>
              /\ epoch_acc' = <<m.correct, m.total>>
              /\ events' = Append(events, "log_train")
              /\ m' = ResetValStats(m)
              /\ twin' = ResetValStats(twin)
              /\ bi' = 0
              /\ pc' = "val"
              /\ UNCHANGED <<fault_at, val_acc>>
    /\ UNCHANGED <<flags, num_epochs, batch_size, env, epoch, loaders,
                   records, wandb_logs, sched_steps, outputs, tracking>>

\* One validation batch under torch.no_grad().
ValBatch ==
    /\ pc = "val" /\ bi < Len(val_loader)
    /\ LET b == val_loader[bi + 1] IN
        \E k \in Matches(b), l \in LossValues :
            /\ m' = RunBatch(ValOps, Len(ValOps), m, b, k, l)
            /\ twin' = RunBatch(ValOps, Len(ValOps), twin, b, k, l)
    /\ bi' = bi + 1
    /\ events' = Append(events, "V")
    /\ UNCHANGED <<flags, num_epochs, batch_size, env, pc, fault_at, epoch, loaders, metrics,
                   records, wandb_logs, sched_steps, outputs, tracking>>

\* After the last validation batch: val_loss is divided in place, val_acc is
\* computed, and both are logged; the epoch's four metrics are now known.
ValMetrics ==
    /\ pc = "val" /\ bi = Len(val_loader)
    /\ IF n_val = 0 \/ m.val_total = 0
         THEN /\ Raise("val_metrics")
              /\ UNCHANGED <<events, records>>
         ELSE /\ m' = [m EXCEPT !.val_loss = <<@[1], n_val>>]
              /\ twin' = [twin EXCEPT !.val_loss = <<@[1], n_val>>]
              /\ val_acc' = <<m.val_correct, m.val_total>>
              /\ events' = Append(events, "log_val")
              /\ records' = Append(records, epoch)
              /\ pc' = "wandb_log"
              /\ UNCHANGED <<fault_at, epoch_loss, epoch_acc>>
    /\ UNCHANGED <<flags, num_epochs, batch_size, env, epoch, bi, loaders,
                   wandb_logs, sched_steps, outputs, tracking>>

\* wandb.log of the epoch's four metrics, when tracking is on.
WandbLog ==
    /\ pc = "wandb_log"
    /\ IF use_wandb
         THEN /\ wandb_logs' = wandb_logs + 1
              /\ events' = Append(events, "wandb_log")
         ELSE UNCHANGED <<wandb_logs, events>>
    /\ pc' = "sched"
    /\ UNCHANGED <<flags, num_epochs, batch_size, env, fault_at, epoch, bi, loaders, m, twin,
                   metrics, records, sched_steps, outputs, tracking>>

\* scheduler.step(), the last statement of the loop body.
SchedulerStep ==
    /\ pc = "sched"
    /\ sched_steps' = sched_steps + 1
    /\ events' = Append(events, "sched")
    /\ epoch' = epoch + 1
    /\ pc' = "loop"
    /\ UNCHANGED <<flags, num_epochs, batch_size, env, fault_at, bi, loaders, m, twin,
                   metrics, records, wandb_logs, outputs, tracking>>

\* Whether the checkpoint is written.
SavesCheckpoint == use_wandb

\* torch.save of the state dict.
SaveModel ==
    /\ pc = "save"
    /\ IF SavesCheckpoint
         THEN ckpt_writes' = ckpt_writes + 1 /\ pc' = "artifact"
         ELSE UNCHANGED ckpt_writes /\ pc' = "export"
    /\ UNCHANGED <<flags, num_epochs, batch_size, env, fault_at, epoch, bi, loaders, m, twin,
                   metrics, events, records, wandb_logs, sched_steps, artifacts,
                   onnx_writes, tracking>>

\* The checkpoint is added to an artifact and uploaded.
LogArtifact ==
    /\ pc = "artifact"
    /\ artifacts' = artifacts + 1
    /\ pc' = "export"
    /\ UNCHANGED <<flags, num_epochs, batch_size, env, fault_at, epoch, bi, loaders, m, twin,
                   metrics, events, records, wandb_logs, sched_steps, ckpt_writes,
                   onnx_writes, tracking>>

\* Whether the ONNX export block is entered.
ExportsOnnx == export_model /\ use_wandb

\* next(iter(val_loader)) and torch.onnx.export; next raises StopIteration on a
\* loader that yields nothing.
ExportOnnx ==
    /\ pc = "export"
    /\ IF ~ExportsOnnx
         THEN pc' = "done" /\ UNCHANGED <<fault_at, onnx_writes, m, twin, metrics>>
         ELSE IF val_loader = <<>>
         THEN Raise("export") /\ UNCHANGED onnx_writes
         ELSE /\ onnx_writes' = onnx_writes + 1
              /\ pc' = "onnx_artifact"
              /\ UNCHANGED <<fault_at, m, twin, metrics>>
    /\ UNCHANGED <<flags, num_epochs, batch_size, env, epoch, bi, loaders,
                   events, records, wandb_logs, sched_steps, ckpt_writes,
                   artifacts, tracking>>

\* The ONNX file is added to an artifact and uploaded.
LogOnnxArtifact ==
    /\ pc = "onnx_artifact"
    /\ artifacts' = artifacts + 1
    /\ pc' = "finish"
    /\ UNCHANGED <<flags, num_epochs, batch_size, env, fault_at, epoch, bi, loaders, m, twin,
                   metrics, events, records, wandb_logs, sched_steps, ckpt_writes,
                   onnx_writes, tracking>>

\* wandb.finish(), the last statement of the export block.
WandbFinish ==
    /\ pc = "finish"
    /\ wandb_finishes' = wandb_finishes + 1
    /\ pc' = "done"
    /\ UNCHANGED <<flags, num_epochs, batch_size, env, fault_at, epoch, bi, loaders, m, twin,
                   metrics, events, records, wandb_logs, sched_steps, outputs, wandb_inits>>

\* The step at hand raises: a framework call fails, in its first statement or,
\* in a batch, in any of them.
Fault ==
    /\ pc \in Steps
    /\ Raise(pc)
    /\ UNCHANGED <<flags, num_epochs, batch_size, env, epoch, bi, loaders,
                   events, records, wandb_logs, sched_steps, outputs, tracking>>

Next ==
    \/ WandbInit
    \/ Load
    \/ EpochBegin
    \/ LoopExit
    \/ TrainBatch
    \/ TrainMetrics
    \/ ValBatch
    \/ ValMetrics
    \/ WandbLog
    \/ SchedulerStep
    \/ SaveModel
    \/ LogArtifact
    \/ ExportOnnx
    \/ LogOnnxArtifact
    \/ WandbFinish
    \/ Fault

Spec == Init /\ [][Next]_vars

\* The same run under the scheduling of a sequential program: a step that can
\* be taken is taken.
FairSpec == Spec /\ WF_vars(Next)

(***************************************************************************)
(* Helpers of the properties.                                              *)
(***************************************************************************)
Max(a, b) == IF a >= b THEN a ELSE b

\* Where control is, or was when the run raised.
Pos == IF pc = "fault" THEN fault_at ELSE pc

Has(seq, x) == \E i \in 1 .. Len(seq) : seq[i] = x

Count(seq, x) == Cardinality({i \in 1 .. Len(seq) : seq[i] = x})

IsPrefix(p, q) == Len(p) <= Len(q) /\ \A i \in 1 .. Len(p) : p[i] = q[i]

NotProfStep(op) == op # "prof_step"

PostLoopSteps == {"save", "artifact", "export", "onnx_artifact", "finish", "done"}

AfterSaveSteps == {"artifact", "export", "onnx_artifact", "finish", "done"}

\* C1: a run that completes its training loop writes the checkpoint exactly
\* once, after the last epoch, for every combination of the flags: no write
\* before the loop is left, and exactly one once the save step is passed.
C1_CheckpointOnce ==
    /\ ckpt_writes <= 1
    /\ Pos \notin PostLoopSteps => ckpt_writes = 0
    /\ Pos \in AfterSaveSteps => ckpt_writes = 1

\* C2: a run called with export_model = TRUE that completes has exported the
\* model to ONNX, whatever the other flags.
C2_ExportWhenRequested ==
    (pc = "done" /\ export_model) => onnx_writes = 1

\* C8: a run that called wandb.init has called wandb.finish when train_model
\* returns, and wandb.finish is never called without wandb.init.
C8_FinishIffInit ==
    /\ (pc = "done" /\ wandb_inits > 0) => wandb_finishes > 0
    /\ wandb_finishes > 0 => wandb_inits > 0

\* C10: the denominator of the reported train loss equals the number of
\* samples processed in the training pass, and likewise for validation, for
\* every loader.
C10_DenominatorsAreSampleCounts ==
    /\ Has(events, "log_train") => epoch_loss[2] = m.total
    /\ Has(events, "log_val") => m.val_loss[2] = m.val_total

\* The order the claims give to the statements of a training batch.
ClaimedBatchOrder == <<"zero_grad", "forward", "loss", "backward", "opt_step", "stats">>

\* The place of an event in an epoch.
EventRank(e) ==
    CASE e = "T" -> 1
      [] e = "log_train" -> 2
      [] e = "V" -> 3
      [] e = "log_val" -> 4
      [] e = "wandb_log" -> 5
      [] e = "sched" -> 6

Ordered(seq) == \A i \in 1 .. Len(seq) - 1 : EventRank(seq[i]) <= EventRank(seq[i + 1])

\* What C3's parts share: the batch order, the training batches before the
\* validation batches, the scheduler last and once, epochs not overlapping.
EpochOrderCommon ==
    /\ (pc = "train" /\ bi > 0) => SelectSeq(m.ops, NotProfStep) = ClaimedBatchOrder
    /\ Count(events, "T") <= Len(train_loader)
    /\ Count(events, "V") <= Len(val_loader)
    /\ Has(events, "V") => Count(events, "T") = Len(train_loader)
    /\ Count(events, "sched") <= 1
    /\ Has(events, "sched") =>
          /\ events[Len(events)] = "sched"
          /\ Count(events, "T") = Len(train_loader)
          /\ Count(events, "V") = Len(val_loader)
    /\ sched_steps = epoch
    /\ Pos \in {"train", "val", "wandb_log", "sched"} => ~Has(events, "sched")

\* C3 (as amended): in every epoch all training batches come first, each in
\* the order zero_grad, forward, loss, backward, optimizer step, statistics;
\* the train metrics are logged before the first validation batch; then all
\* validation batches; then the validation metrics and, with tracking on, the
\* wandb record; then the scheduler step, once; the next epoch's training
\* starts only after it.
C3_EpochOrder ==
    /\ EpochOrderCommon
    /\ Ordered(events)
    /\ Count(events, "log_train") <= 1
    /\ Count(events, "log_val") <= 1
    /\ Count(events, "wandb_log") <= 1
    /\ Has(events, "log_train") => Count(events, "T") = Len(train_loader)
    /\ Has(events, "V") => Has(events, "log_train")
    /\ Has(events, "log_val") => Count(events, "V") = Len(val_loader)
    /\ Has(events, "wandb_log") => Has(events, "log_val")
    /\ Has(events, "sched") =>
          /\ Has(events, "log_val")
          /\ use_wandb <=> Has(events, "wandb_log")

\* C3 (as stated): as above, but every logging of the epoch's metrics comes
\* after all validation batches.
C3_MetricsLoggedAfterValidation ==
    /\ EpochOrderCommon
    /\ \A e \in {"log_train", "log_val", "wandb_log"} :
          Has(events, e) =>
              /\ Count(events, "T") = Len(train_loader)
              /\ Count(events, "V") = Len(val_loader)

\* A second epoch is training, after a first one with both kinds of batch.
C3_Witness ==
    /\ pc = "train" /\ epoch = 1 /\ bi >= 1
    /\ Len(val_loader) >= 2
    /\ Has(events, "T") /\ sched_steps = 1

\* C4: the loop runs exactly num_epochs epochs (none when num_epochs <= 0);
\* each epoch yields one metrics record, in epoch order; wandb.log is called
\* once per epoch when use_wandb and never otherwise.
C4_EpochCount ==
    /\ pc # "init" => epoch <= Max(num_epochs, 0)
    /\ Pos \in PostLoopSteps => epoch = Max(num_epochs, 0)
    /\ records = [i \in 1 .. Len(records) |-> i - 1]
    /\ Len(records) = epoch + (IF Pos \in {"wandb_log", "sched"} THEN 1 ELSE 0)
    /\ wandb_logs =
          IF use_wandb THEN epoch + (IF Pos = "sched" THEN 1 ELSE 0) ELSE 0

\* The run ends: it returns or it raises.
Terminated == pc \in {"done", "fault"}

\* C4, with termination.
C4_RunsNumEpochsAndStops == [] C4_EpochCount /\ <> Terminated

\* A tracked run of MaxEpochs epochs has returned.
C4_Witness ==
    /\ pc = "done" /\ use_wandb
    /\ num_epochs = MaxEpochs /\ Len(records) = MaxEpochs /\ wandb_logs = MaxEpochs

\* C5: a step that raises ends the run there; a run that raised inside the
\* epoch loop has saved no checkpoint, uploaded no artifact and exported
\* nothing.
C5_FaultState ==
    /\ fault_at # "none" => pc = "fault"
    /\ fault_at \in EpochSteps =>
          ckpt_writes = 0 /\ artifacts = 0 /\ onnx_writes = 0 /\ wandb_finishes = 0

\* C5, with: nothing is executed, and nothing retried, after the step that
\* raised.
C5_FaultAborts == [] C5_FaultState /\ [][fault_at = "none"]_vars

\* A tracked run raised in a training batch of its second epoch.
C5_Witness ==
    /\ pc = "fault" /\ fault_at = "train" /\ use_wandb
    /\ epoch = 1 /\ Has(events, "T") /\ wandb_logs = 1

\* What the validation pass must leave alone.
TrainSide ==
    <<m.opt_steps, m.zero_grads, m.backwards, m.prof_steps,
      m.running_loss, m.correct, m.total, epoch_loss, epoch_acc,
      sched_steps, wandb_logs, outputs>>

\* C6: a validation batch is forward, loss, statistics and nothing else.
C6_ValBatchShape ==
    (pc = "val" /\ bi > 0) => m.ops = <<"forward", "loss", "val_stats">>

\* C6, with: while the validation pass runs, the weights, the gradients, the
\* optimizer and the training statistics do not change.
C6_ValidationFrame ==
    [] C6_ValBatchShape /\ [][(pc = "val" /\ pc' # "fault") => TrainSide' = TrainSide]_vars

\* Two validation batches done after a training pass.
C6_Witness ==
    /\ pc = "val" /\ bi = 2 /\ m.val_total >= 2
    /\ m.opt_steps >= 1 /\ m.correct >= 1

IsFraction(q) == q[2] > 0 /\ 0 <= q[1] /\ q[1] <= q[2]

\* C7: the counters stay within 0 <= correct <= total, start each epoch at 0,
\* every accuracy that is produced lies in [0, 1], and a pass without a batch
\* produces no accuracy: the run raises at the division.
C7_AccuracyBounds ==
    /\ 0 <= m.correct /\ m.correct <= m.total
    /\ 0 <= m.val_correct /\ m.val_correct <= m.val_total
    /\ (pc = "train" /\ bi = 0) => m.total = 0 /\ m.correct = 0 /\ m.running_loss = 0
    /\ (pc = "val" /\ bi = 0) => m.val_total = 0 /\ m.val_correct = 0 /\ m.val_loss = <<0, 1>>
    /\ epoch_acc # NoValue => IsFraction(epoch_acc)
    /\ val_acc # NoValue => IsFraction(val_acc)
    /\ (Has(events, "log_train") /\ pc # "fault") =>
          m.total > 0 /\ epoch_acc = <<m.correct, m.total>>
    /\ (Has(events, "log_val") /\ pc # "fault") =>
          m.val_total > 0 /\ val_acc = <<m.val_correct, m.val_total>>
    /\ fault_at = "train_metrics" => Len(train_loader) = 0 /\ ~Has(events, "log_train")
    /\ fault_at = "val_metrics" => Len(val_loader) = 0 /\ ~Has(events, "log_val")

\* C7, with: a pass that processed no sample ends in the fault.
C7_CountersAndAccuracy ==
    /\ [] C7_AccuracyBounds
    /\ [][(pc = "train" /\ bi = Len(train_loader) /\ m.total = 0)
              => (pc' = "fault" /\ ~Has(events', "log_train"))]_vars
    /\ [][(pc = "val" /\ bi = Len(val_loader) /\ m.val_total = 0)
              => (pc' = "fault" /\ ~Has(events', "log_val"))]_vars

\* In a second epoch: a validation accuracy of 1 and a train accuracy of 0.
C7_Witness ==
    /\ Has(events, "log_val") /\ epoch = 1
    /\ val_acc[1] = val_acc[2] /\ epoch_acc[1] = 0 /\ epoch_acc[2] >= 2

\* What a run shows apart from the profiler's own steps.
Observable(s) == [s EXCEPT !.prof_steps = 0, !.ops = SelectSeq(s.ops, NotProfStep)]

\* C9: on the same batches, the run and the run with the other value of
\* profiling do the same operations per batch and have the same statistics
\* and optimizer steps; they differ by one profiler step per batch.
C9_ProfilingIsTransparent ==
        /\ Observable(m) = Observable(twin)
        /\ m.prof_steps = (IF profiling THEN m.opt_steps ELSE 0)
        /\ twin.prof_steps = (IF profiling THEN 0 ELSE twin.opt_steps)

\* A profiled run of two epochs has returned.
C9_Witness ==
    /\ pc = "done" /\ profiling /\ epoch = 2
    /\ m.prof_steps >= 4 /\ twin.prof_steps = 0 /\ m.correct >= 1

====
